---- MODULE Spec2Model ----
(***************************************************************************)
(* SPF, the SSH port forwarder: the pool of shared SSH sessions, the       *)
(* forward supervisors, the keep-alive monitors and the SPF_* instance API *)
(* of the library variant (spf.go), together with the standalone program   *)
(* (main.go), whose pool and supervisors are the same code with a context  *)
(* that is never cancelled.                                                *)
(*                                                                         *)
(* Specifications:                                                         *)
(*   Spec      the library: one instance created from a config file with   *)
(*             forwards, driven through SPF_Start/Stop/Destroy/IsRunning   *)
(*   MainSpec  the standalone program after main() has spawned the         *)
(*             supervisors                                                 *)
(*   ApiSpec   the instance registry: SPF_Create and the calls on          *)
(*             instances whose config has no forward section               *)
(*   ConnSpec  one accepted connection of the standalone program: the      *)
(*             SOCKS5 negotiation of both servers and the relay            *)
(*   ServeSpec the standalone program while it serves: the listeners of a  *)
(*             local and a SOCKS5 forward with connections in flight       *)
(*   FairMainSpec, FairSpec  the same under the scheduler's fairness       *)
(*   LockFairMainSpec  FairMainSpec with the fairness of the pool's lock   *)
(*   SegSpec   one accepted SOCKS5 connection whose client delivers its    *)
(*             byte stream in segments of any length                       *)
(*   ManagerSpec  the SshManager of the Windows tray application           *)
(***************************************************************************)
EXTENDS Integers, Sequences, FiniteSets, TLC

\* ------------------------------------------------------------- bounds
\* SSH sessions ever opened (successful ssh.Dial calls)
MaxSessions == 3
\* connections in flight at the same time (slots are reused after close)
MaxConns == 1
\* SPF_Start calls that spawn supervisors (supervisor generations)
MaxStarts == 2
\* SPF_Create calls (the cap of instanceCounter)
MaxInstances == 2
\* failures the environment injects in one run: a failed ssh.Dial, a refused
\* Listen, a lost session
MaxFaults == 1

\* -------------------------------------------------- configuration files
\* The parsed content of the config files the model loads: the server
\* sections and the forward sections of each (ini.Load and the section loop).
ConfigFiles == {"mix.ini", "local.ini", "remote.ini", "socks.ini", "rsocks.ini",
                "proxy.ini", "orphan.ini", "baddir.ini", "mixbad.ini", "serve.ini",
                "key.ini", "two.ini", "both.ini", "empty.ini", "missing.ini"}

ForwardConfig ==
  [ f1 |-> [ServerName |-> "s1", Direction |-> "local",
            Socks5User |-> "", Socks5Pass |-> ""],
    f2 |-> [ServerName |-> "s1", Direction |-> "remote",
            Socks5User |-> "", Socks5Pass |-> ""],
    f3 |-> [ServerName |-> "s1", Direction |-> "socks5",
            Socks5User |-> "", Socks5Pass |-> ""],
    f4 |-> [ServerName |-> "s1", Direction |-> "reverse-socks5",
            Socks5User |-> "u", Socks5Pass |-> "p"],
    \* a forward on a second server (which has no section in orphan.ini)
    f5 |-> [ServerName |-> "s2", Direction |-> "local",
            Socks5User |-> "", Socks5Pass |-> ""],
    \* a forward whose direction is none of the four
    f6 |-> [ServerName |-> "s1", Direction |-> "udp",
            Socks5User |-> "", Socks5Pass |-> ""],
    \* a SOCKS5 forward with a user name and no password
    f7 |-> [ServerName |-> "s1", Direction |-> "socks5",
            Socks5User |-> "u", Socks5Pass |-> ""],
    \* a SOCKS5 forward with credentials
    f8 |-> [ServerName |-> "s1", Direction |-> "socks5",
            Socks5User |-> "u", Socks5Pass |-> "p"] ]

ForwardNames == DOMAIN ForwardConfig

ServerNames == {"s1", "s2"}

\* the sections of each file by name (cfg.Sections(); the ini package always
\* lists DEFAULT)
Sections(file) ==
  CASE file = "mix.ini"    -> {"DEFAULT", "common", "s1", "f1", "f2"}
    [] file = "local.ini"  -> {"DEFAULT", "s1", "f1"}
    [] file = "remote.ini" -> {"DEFAULT", "s1", "f2"}
    [] file = "socks.ini"  -> {"DEFAULT", "s1", "f3"}
    [] file = "rsocks.ini" -> {"DEFAULT", "common", "s1", "f4"}
    [] file = "proxy.ini"  -> {"DEFAULT", "s1", "f1", "f3", "f4", "f7"}
    [] file = "orphan.ini" -> {"DEFAULT", "s1", "f1", "f5"}
    [] file = "baddir.ini" -> {"DEFAULT", "s1", "f6"}
    [] file = "mixbad.ini" -> {"DEFAULT", "s1", "f1", "f6"}
    \* two servers with a local forward each
    [] file = "two.ini"    -> {"DEFAULT", "s1", "s2", "f1", "f5"}
    [] file = "serve.ini"  -> {"DEFAULT", "common", "s1", "f1", "f8"}
    \* the server section gives a private key instead of a password
    [] file = "key.ini"    -> {"DEFAULT", "s2", "f5"}
    \* the section f1 also carries user and password; so does [common]
    [] file = "both.ini"   -> {"DEFAULT", "common", "s1", "f1"}
    [] file = "empty.ini"  -> {"DEFAULT"}
    [] OTHER               -> {}

\* the keys a forward section sets
ForwardKeys(name) ==
  {"server", "direction", "remoteIP", "remotePort", "localIP", "localPort"}
  \cup (IF ForwardConfig[name].Socks5User # "" THEN {"socks5User"} ELSE {})
  \cup (IF ForwardConfig[name].Socks5Pass # "" THEN {"socks5Pass"} ELSE {})

\* the keys of a section of a file (section.HasKey)
Keys(file, name) ==
  CASE name = "DEFAULT" -> {}
    [] name = "common" ->
         IF file = "both.ini" THEN {"debug", "user", "password"} ELSE {"debug"}
    [] name \in ServerNames ->
         IF file = "key.ini" THEN {"server", "user", "private_key"}
         ELSE {"server", "user", "password", "port"}
    [] OTHER ->
         ForwardKeys(name)
         \cup (IF file = "both.ini" THEN {"user", "password"} ELSE {})

\* the section loop: DEFAULT and common are skipped; a section with user and
\* password is a server; otherwise one with server and direction is a forward
Classify(name, keys) ==
  IF name = "DEFAULT" \/ name = "common" THEN "skipped"
  ELSE IF "user" \in keys /\ "password" \in keys THEN "server"
  ELSE IF "server" \in keys /\ "direction" \in keys THEN "forward"
  ELSE "ignored"

\* instance.forwardConfigs after SPF_Create / forwardConfigs of main()
forwardConfigs(file) ==
  {n \in Sections(file) : Classify(n, Keys(file, n)) = "forward"}

\* instance.servers after SPF_Create / servers of main()
servers(file) ==
  {n \in Sections(file) : Classify(n, Keys(file, n)) = "server"}

\* ini.Load fails for a file that is not there
LoadFails(file) == file = "missing.ini"

\* ---------------------------------------------------------------- state
InstanceIds == 1..MaxInstances
SessionIds  == 1..MaxSessions
ConnIds     == 1..MaxConns
\* a supervisor goroutine: the forward it serves and the SPF_Start that spawned it
Sups        == ForwardNames \X (1..MaxStarts)

VARIABLES
  instanceCounter,  \* var instanceCounter
  instances,        \* var instances: the registered instance IDs
  cfg,              \* per instance object: the config file it was created from
  running,          \* per instance object: SPFInstance.running
  cancelled,        \* per instance object: instance.ctx is done
  connections,      \* per instance object: connManager.connections (0: no entry)
  session,          \* per SSH client: state, server, owner, monitor goroutine
  pc,               \* per supervisor goroutine: its position in handleConnection
  held,             \* per supervisor goroutine: the conn of connectAndForward,
                    \* kept after a failed call until its error is handled
  conns,            \* per connection slot: the accepted connection and its handler
  api,              \* the API call of the host in progress, if any
  ret,              \* the value the last API call returned
  returned,         \* history: the IDs SPF_Create has returned
  faults,           \* environment: the failures injected so far
  \* the C# tray application (SshManager)
  sshClients,         \* _sshClients: per server absent, connected or disconnected
  portForwards,       \* _portForwards: per server the forwards that are started
  portForwardConfigs, \* _portForwardConfigs: per server the configs of those
  reconnect           \* per server the ReconnectServer task: position, configsToRestore

vars == <<instanceCounter, instances, cfg, running, cancelled, connections,
          session, pc, held, conns, api, ret, returned, faults,
          sshClients, portForwards, portForwardConfigs, reconnect>>

\* the state of the SshManager, which the Go programs do not have
manager == <<sshClients, portForwards, portForwardConfigs, reconnect>>

\* no ReconnectServer task
NoTask == [at |-> "none", configsToRestore |-> {}]

\* the SshManager is not in use
NoManager ==
  /\ sshClients = [s \in ServerNames |-> "absent"]
  /\ portForwards = [s \in ServerNames |-> {}]
  /\ portForwardConfigs = [s \in ServerNames |-> {}]
  /\ reconnect = [s \in ServerNames |-> NoTask]


registry == <<instanceCounter, instances, cfg, returned>>

\* the environment injects a failure when inject holds
Fault(inject) ==
  /\ IF inject THEN faults < MaxFaults /\ faults' = faults + 1 ELSE UNCHANGED faults
  /\ UNCHANGED manager

Idle == [op |-> "idle", id |-> 0]
NoSession == [st |-> "none", srv |-> "", inst |-> 0, mon |-> "none"]
\* an accepted connection: its handler's position (st), its forward, the SSH
\* client of its supervisor, the bytes the client has sent and the proxy has
\* not read (in), the negotiation bytes written to the client (out), the
\* payload delivered to the target (up), the bytes the target has sent and
\* the proxy has not read (ans), the payload delivered to the client (down),
\* whether client and target have shut down their sending side (ceof, teof),
\* the target of the parsed request, the targets dialed and the connection
\* to the target (upstream: none, open or closed)
NoConn == [st |-> "free", f |-> "", sess |-> 0, in |-> <<>>, out |-> <<>>,
           up |-> <<>>, ans |-> <<>>, down |-> <<>>, ceof |-> FALSE,
           teof |-> FALSE, target |-> <<>>, dials |-> <<>>, upstream |-> "none"]

Fwd(g) == g[1]
Gen(g) == g[2]
ServerOf(g) == ForwardConfig[Fwd(g)].ServerName
DirectionOf(g) == ForwardConfig[Fwd(g)].Direction

\* the instance object whose forwardConfigs hold the forward of g (a config
\* file with forward sections is loaded by one instance)
InstOf(g) == CHOOSE i \in InstanceIds : Fwd(g) \in forwardConfigs(cfg[i])

\* connManager.mutex is write-locked from createConnection's Lock to its
\* deferred Unlock, that is, while a supervisor of the instance is in ssh.Dial
LockHeld(i) == \E g \in Sups : pc[g] = "dial" /\ InstOf(g) = i

\* the next SSH client object
NextSess == 1 + Cardinality({x \in SessionIds : session[x].st # "none"})

\* conn.Close() on an SSH client
Close(ss, x) == [ss EXCEPT ![x].st = "closed"]

\* ------------------------------------------------------------ the pool
\* GetConnection: under the read lock, the cached client if there is one
GetConnection(g) ==
  LET i == InstOf(g)
      c == connections[i][ServerOf(g)]
      p == [pc EXCEPT ![g] = IF c # 0 THEN "listen" ELSE "create"]
  IN /\ pc[g] = "get"
     /\ ~LockHeld(i)
     /\ pc' = p
     /\ held' = [held EXCEPT ![g] = c]
     /\ UNCHANGED <<faults, manager, registry, running, cancelled, connections, session, conns,
                    api, ret>>

\* createConnection up to ssh.Dial: the write lock and the double check
createConnection(g) ==
  LET i == InstOf(g)
      s == ServerOf(g)
      c == connections[i][s]
      p == [pc EXCEPT ![g] = IF c # 0 THEN "listen" ELSE "dial"]
  IN /\ pc[g] = "create"
     /\ ~LockHeld(i)
     /\ pc' = p
     /\ held' = [held EXCEPT ![g] = c]
     /\ UNCHANGED <<faults, manager, registry, running, cancelled, connections, session, conns,
                    api, ret>>

\* a createConnection that stores the client of a failed dial as well
sshDial_CachesFailure(g, ok) ==
  LET i == InstOf(g)
      s == ServerOf(g)
      x == NextSess
  IN /\ pc[g] = "dial"
     /\ x <= MaxSessions
     /\ Fault(~ok)
     /\ pc' = [pc EXCEPT ![g] = IF ok THEN "listen" ELSE "fail"]
     /\ session' = [session EXCEPT ![x] =
           [st |-> IF ok THEN "open" ELSE "closed", srv |-> s, inst |-> i,
            mon |-> "run"]]
     /\ connections' = [connections EXCEPT ![i][s] = x]
     /\ held' = [held EXCEPT ![g] = IF ok THEN x ELSE 0]
     /\ UNCHANGED <<registry, running, cancelled, conns, api, ret>>

\* createConnection from ssh.Dial on: on success the client is stored and its
\* monitor started, on failure the error is returned; the lock is released
\* (once MaxSessions clients exist every further dial is refused)
sshDial(g, ok) ==
  LET i == InstOf(g)
      s == ServerOf(g)
      x == NextSess
      p == [pc EXCEPT ![g] = IF ok THEN "listen" ELSE "fail"]
  IN /\ pc[g] = "dial"
     /\ ok => x <= MaxSessions
     /\ Fault(~ok /\ x <= MaxSessions)
     /\ pc' = p
     /\ IF ok
        THEN /\ session' = [session EXCEPT ![x] =
                   [st |-> "open", srv |-> s, inst |-> i, mon |-> "run"]]
             /\ connections' = [connections EXCEPT ![i][s] = x]
             /\ held' = [held EXCEPT ![g] = x]
        ELSE /\ UNCHANGED <<session, connections>>
             /\ held' = [held EXCEPT ![g] = 0]
     /\ UNCHANGED <<registry, running, cancelled, conns, api, ret>>

Dial(g) == \E ok \in BOOLEAN : sshDial(g, ok)

\* a removal that deletes the entry and leaves the client open
RemoveConnection_NoClose(i, s) ==
  /\ session' = session
  /\ connections' = [connections EXCEPT ![i][s] = 0]

\* RemoveConnection / removeConnection: close the cached client, if any, and
\* delete the entry
RemoveConnection(i, s) ==
  /\ session' = IF connections[i][s] # 0
                THEN Close(session, connections[i][s]) ELSE session
  /\ connections' = [connections EXCEPT ![i][s] = 0]

\* a monitor that returns on a failed keep-alive and deletes nothing
monitorConnection_NoEvict(x) ==
  /\ session[x].mon = "run"
  /\ session[x].st # "open" \/ cancelled[session[x].inst]
  /\ ~LockHeld(session[x].inst)
  /\ session' = [session EXCEPT ![x].mon = "done"]
  /\ UNCHANGED <<faults, manager, registry, running, cancelled, connections, pc, held, conns,
                 api, ret>>

\* monitorConnection: the keep-alive of client x fails (the client is lost or
\* closed) or the context is done; cleanup deletes the entry of x's server
monitorConnection(x) ==
  LET i == session[x].inst
      s == session[x].srv
  IN /\ session[x].mon = "run"
     /\ session[x].st # "open" \/ cancelled[i]
     /\ ~LockHeld(i)
     /\ connections' = [connections EXCEPT ![i][s] = 0]
     /\ session' = [session EXCEPT ![x].mon = "done"]
     /\ UNCHANGED <<faults, manager, registry, running, cancelled, pc, held, conns, api, ret>>

\* a CloseAll that empties the map and closes no client
CloseAll_NoClose(i) ==
  /\ session' = session
  /\ connections' = [connections EXCEPT ![i] = [s \in ServerNames |-> 0]]

\* CloseAll: close every cached client and replace the map by an empty one
CloseAll(i) ==
  /\ session' = [x \in SessionIds |->
        IF \E s \in ServerNames : connections[i][s] = x
        THEN [session[x] EXCEPT !.st = "closed"] ELSE session[x]]
  /\ connections' = [connections EXCEPT ![i] = [s \in ServerNames |-> 0]]

\* ----------------------------------------------------- the supervisors
LocalKinds  == {"local", "socks5"}
RemoteKinds == {"remote", "reverse-socks5"}

\* the listener of a supervisor is open from Listen to the deferred Close
ListenerBound(g) == pc[g] \in {"acheck", "accept"}

\* handleConnection: the select at the top of the loop
handleConnection(g) ==
  /\ pc[g] = "loop"
  /\ pc' = [pc EXCEPT ![g] = IF cancelled[InstOf(g)] THEN "done" ELSE "get"]
  /\ UNCHANGED <<faults, manager, registry, running, cancelled, connections, session, held,
                 conns, api, ret>>

\* connectAndForward's switch and the Listen of the handler it calls: on the
\* SSH client for remote and reverse-socks5, on the local stack for local and
\* socks5 (refused while a supervisor of the same forward holds the port, or
\* when the client is dead; else a refusal is a failure of the environment);
\* for any other direction the default branch returns "invalid direction"
Listen(g, ok) ==
  LET d == DirectionOf(g)
      p == [pc EXCEPT ![g] = IF ok THEN "acheck" ELSE "fail"]
      can == \/ d \in RemoteKinds /\ session[held[g]].st = "open"
             \/ d \in LocalKinds
                /\ ~\E h \in Sups : h # g /\ Fwd(h) = Fwd(g) /\ ListenerBound(h)
  IN /\ pc[g] = "listen"
     /\ ok => can
     /\ Fault(~ok /\ can)
     /\ pc' = p
     /\ UNCHANGED held
     /\ UNCHANGED <<registry, running, cancelled, connections, session, conns,
                    api, ret>>

connectAndForward(g) == \E ok \in BOOLEAN : Listen(g, ok)

\* the select of the accept loop: return nil when the context is done (the
\* deferred Close releases the listener), else block in Accept
acceptLoop(g) ==
  LET stop == cancelled[InstOf(g)]
  IN /\ pc[g] = "acheck"
     /\ pc' = [pc EXCEPT ![g] = IF stop THEN "loop" ELSE "accept"]
     /\ held' = [held EXCEPT ![g] = IF stop THEN 0 ELSE held[g]]
     /\ UNCHANGED <<faults, manager, registry, running, cancelled, connections, session, conns,
                    api, ret>>

\* the greetings a SOCKS5 client opens with (the first segment it sends)
Greetings == {<<5, 1, 0>>, <<5, 1, 2>>}

\* Accept returns a connection: a client reached the listener (a server-side
\* listener only while its session is up); the handler goroutine is spawned
Accept(g, k, input) ==
  /\ pc[g] = "accept"
  /\ DirectionOf(g) \in RemoteKinds => session[held[g]].st = "open"
  /\ conns[k].st = "free"
  /\ conns' = [conns EXCEPT ![k] = [NoConn EXCEPT !.st = "accepted", !.f = Fwd(g),
                                   !.sess = held[g], !.in = input]]
  /\ pc' = [pc EXCEPT ![g] = "acheck"]
  /\ UNCHANGED <<faults, manager, registry, running, cancelled, connections, session, held,
                 api, ret>>

ClientConnects(g) ==
  \E k \in ConnIds :
    \E input \in (IF DirectionOf(g) \in {"socks5", "reverse-socks5"}
                  THEN Greetings ELSE {<<>>}) : Accept(g, k, input)

\* Accept returns an error: the listener of the SSH client ends with the
\* client (lost or closed); the error is returned to handleConnection
AcceptError(g) ==
  /\ pc[g] = "accept"
  /\ DirectionOf(g) \in RemoteKinds
  /\ session[held[g]].st # "open"
  /\ pc' = [pc EXCEPT ![g] = "fail"]
  /\ UNCHANGED held
  /\ UNCHANGED <<faults, manager, registry, running, cancelled, connections, session, conns,
                 api, ret>>

\* Accept of a local listener returns an error (the operating system refuses
\* the new socket): a failure of the environment; the error is returned to
\* handleConnection and the deferred Close releases the listener
LocalAcceptError(g) ==
  /\ pc[g] = "accept"
  /\ DirectionOf(g) \in LocalKinds
  /\ Fault(TRUE)
  /\ pc' = [pc EXCEPT ![g] = "fail"]
  /\ UNCHANGED held
  /\ UNCHANGED <<registry, running, cancelled, connections, session, conns,
                 api, ret>>

\* a supervisor that retries at once after the removal
handleError_NoWait(g) ==
  /\ pc[g] = "fail"
  /\ ~LockHeld(InstOf(g))
  /\ RemoveConnection(InstOf(g), ServerOf(g))
  /\ pc' = [pc EXCEPT ![g] = "get"]
  /\ held' = [held EXCEPT ![g] = 0]
  /\ UNCHANGED <<faults, manager, registry, running, cancelled, conns, api, ret>>

\* handleConnection on an error: the session of the forward's server is
\* removed from the pool before the back-off
handleError(g) ==
  LET i == InstOf(g)
      s == ServerOf(g)
      p == [pc EXCEPT ![g] = "backoff"]
  IN /\ pc[g] = "fail"
     /\ ~LockHeld(i)
     /\ RemoveConnection(i, s)
     /\ pc' = p
     /\ held' = [held EXCEPT ![g] = 0]
     /\ UNCHANGED <<faults, manager, registry, running, cancelled, conns, api, ret>>

\* the select of the back-off: the 30 s timer, or the context when it is done
backoff(g) ==
  /\ pc[g] = "backoff"
  /\ \E next \in (IF cancelled[InstOf(g)] THEN {"loop", "done"} ELSE {"loop"}) :
       pc' = [pc EXCEPT ![g] = next]
  /\ UNCHANGED <<faults, manager, registry, running, cancelled, connections, session, held,
                 conns, api, ret>>

\* ------------------------------------------------ accepted connections
\* the goroutine of handleLocalPortForward: a channel to the target on the
\* client the supervisor held at Accept, then the two copyConn
localDial(k, ok) ==
  /\ conns[k].st = "accepted"
  /\ ForwardConfig[conns[k].f].Direction = "local"
  /\ ok => session[conns[k].sess].st = "open"
  /\ conns' = [conns EXCEPT ![k].st = IF ok THEN "relay" ELSE "closed",
                            ![k].upstream = IF ok THEN "open" ELSE "none"]
  /\ UNCHANGED <<faults, manager, registry, running, cancelled, connections, session, pc, held,
                 api, ret>>

\* handleForwardingConnection: dial the local target, then the two copyConn
handleForwardingConnection(k, ok) ==
  /\ conns[k].st = "accepted"
  /\ ForwardConfig[conns[k].f].Direction = "remote"
  /\ conns' = [conns EXCEPT ![k].st = IF ok THEN "relay" ELSE "closed",
                            ![k].upstream = IF ok THEN "open" ELSE "none"]
  /\ UNCHANGED <<faults, manager, registry, running, cancelled, connections, session, pc, held,
                 api, ret>>

\* socks5Server.handleConnection and reverseSocks5Server.handleConnection of
\* the standalone program, up to the method selection: what the server writes
\* in answer to the greeting buf of a client of forward f
methodSelection(f, buf) ==
  LET n == Len(buf)
      requireAuth == ForwardConfig[f].Socks5User # "" /\ ForwardConfig[f].Socks5Pass # ""
      numMethods == buf[2]
      supportedMethods == SubSeq(buf, 3, 2 + numMethods)
      offered(m) == \E j \in 1..Len(supportedMethods) : supportedMethods[j] = m
      selectedMethod == IF requireAuth
                        THEN IF offered(2) THEN 2 ELSE 255
                        ELSE IF offered(0) THEN 0 ELSE 255
  IN IF n < 2 \/ buf[1] # 5 THEN <<>>
     ELSE IF n < 2 + numMethods THEN <<>>
     ELSE <<5, selectedMethod>>

\* the library's handleSocks5Connection and handleReverseSocks5Connection:
\* the deferred Close and nothing else
handleSocks5Connection(k) ==
  /\ conns[k].st = "accepted"
  /\ ForwardConfig[conns[k].f].Direction \in {"socks5", "reverse-socks5"}
  /\ conns' = [conns EXCEPT ![k].st = "closed"]
  /\ UNCHANGED <<faults, manager, registry, running, cancelled, connections, session, pc,
                 held, api, ret>>

\* copyConn: io.Copy ends (EOF or error) and both ends are closed
copyConn(k) ==
  /\ conns[k].st = "relay"
  /\ conns' = [conns EXCEPT ![k].st = "closed", ![k].upstream = "closed"]
  /\ UNCHANGED <<faults, manager, registry, running, cancelled, connections, session, pc, held,
                 api, ret>>

\* the peer of a closed connection is gone: the slot is free again
Reap(k) ==
  /\ conns[k].st = "closed"
  /\ conns' = [conns EXCEPT ![k] = NoConn]
  /\ UNCHANGED <<faults, manager, registry, running, cancelled, connections, session, pc, held,
                 api, ret>>

\* ------------------------------------------------------ environment
\* the SSH session of an open client is lost (network, server, kill)
SessionLost(x) ==
  /\ session[x].st = "open"
  /\ session' = [session EXCEPT ![x].st = "lost"]
  /\ Fault(TRUE)
  /\ UNCHANGED <<registry, running, cancelled, connections, pc, held, conns,
                 api, ret>>

\* --------------------------------------------------- next-state relations
SupervisorStep(g) ==
  \/ handleConnection(g)
  \/ GetConnection(g)
  \/ createConnection(g)
  \/ Dial(g)
  \/ connectAndForward(g)
  \/ acceptLoop(g)
  \/ AcceptError(g)
  \/ LocalAcceptError(g)
  \/ handleError(g)
  \/ backoff(g)

CommonConnStep(k) ==
  \/ \E ok \in BOOLEAN : localDial(k, ok)
  \/ \E ok \in BOOLEAN : handleForwardingConnection(k, ok)
  \/ copyConn(k)
  \/ Reap(k)

RuntimeNext ==
  \/ \E g \in Sups : SupervisorStep(g)
  \/ \E g \in Sups : ClientConnects(g)
  \/ \E k \in ConnIds : CommonConnStep(k)
  \/ \E x \in SessionIds : monitorConnection(x)
  \/ \E x \in SessionIds : SessionLost(x)

\* --------------------------------------------- the standalone program
\* main(): the config is loaded, the pool is empty and a supervisor runs for
\* every forward whose server section exists; the context is never cancelled
MainStart(file) ==
  /\ instanceCounter = 0
  /\ instances = {}
  /\ cfg = [i \in InstanceIds |-> IF i = 1 THEN file ELSE "none"]
  /\ running = [i \in InstanceIds |-> FALSE]
  /\ cancelled = [i \in InstanceIds |-> FALSE]
  /\ connections = [i \in InstanceIds |-> [s \in ServerNames |-> 0]]
  /\ session = [x \in SessionIds |-> NoSession]
  /\ pc = [g \in Sups |->
             IF /\ Fwd(g) \in forwardConfigs(file)
                /\ ForwardConfig[Fwd(g)].ServerName \in servers(file)
                /\ Gen(g) = 1
             THEN "loop" ELSE "none"]
  /\ held = [g \in Sups |-> 0]
  /\ conns = [k \in ConnIds |-> NoConn]
  /\ api = Idle
  /\ ret = 0
  /\ returned = {}
  /\ faults = 0
  /\ NoManager

\* the config files the standalone program is run with
MainInit ==
  \E file \in {"mix.ini", "baddir.ini", "mixbad.ini", "two.ini", "key.ini",
                "both.ini"} : MainStart(file)

MainNext == RuntimeNext

MainSpec == MainInit /\ [][MainNext]_vars

\* the Go scheduler runs every goroutine that can take a step: the supervisors
\* and the keep-alive monitors (clients and the network owe nothing)
FairMainSpec ==
  /\ MainSpec
  /\ \A g \in Sups : WF_vars(SupervisorStep(g))
  /\ \A x \in SessionIds : WF_vars(monitorConnection(x))

\* the same with the fairness of sync.RWMutex: a goroutine waiting in Lock
\* gets the lock although other goroutines take it again and again, so a
\* monitor that is ready to clean up over and over does clean up
LockFairMainSpec ==
  /\ MainSpec
  /\ \A g \in Sups : WF_vars(SupervisorStep(g))
  /\ \A x \in SessionIds : SF_vars(monitorConnection(x))

\* --------------------------------------------------- the instance API
\* the IDs the host passes: those SPF_Create can return, and 0, which it
\* never returns
CallIds == 0..MaxInstances

\* the forwards SPF_Start links to a server section and starts
Startable(i) ==
  {f \in forwardConfigs(cfg[i]) : ForwardConfig[f].ServerName \in servers(cfg[i])}

\* the supervisor generations not yet spawned for instance i
FreeGens(i) ==
  {n \in 1..MaxStarts : \A f \in forwardConfigs(cfg[i]) : pc[<<f, n>>] = "none"}

\* SPF_Create taking the ID from the number of registered instances
SPF_Create_CountIds(file) ==
  LET id == Cardinality(instances) + 1
  IN /\ api = Idle
     /\ instanceCounter < MaxInstances
     /\ instanceCounter' = instanceCounter + 1
     /\ IF LoadFails(file)
        THEN /\ cancelled' = [cancelled EXCEPT ![id] = TRUE]
             /\ ret' = -1
             /\ UNCHANGED <<instances, cfg, running, returned>>
        ELSE /\ instances' = instances \cup {id}
             /\ cfg' = [cfg EXCEPT ![id] = file]
             /\ running' = [running EXCEPT ![id] = FALSE]
             /\ ret' = id
             /\ returned' = returned \cup {id}
             /\ UNCHANGED cancelled
     /\ UNCHANGED <<faults, manager, connections, session, pc, held, conns, api>>

\* SPF_Create: the counter is advanced before the file is loaded; the
\* instance is registered, not running, when the load succeeds
SPF_Create(file) ==
  LET id == instanceCounter + 1
  IN /\ api = Idle
     /\ instanceCounter < MaxInstances
     /\ instanceCounter' = id
     /\ IF LoadFails(file)
        THEN /\ cancelled' = [cancelled EXCEPT ![id] = TRUE]
             /\ ret' = -1
             /\ UNCHANGED <<instances, cfg, running, returned>>
        ELSE /\ instances' = instances \cup {id}
             /\ cfg' = [cfg EXCEPT ![id] = file]
             /\ running' = [running EXCEPT ![id] = FALSE]
             /\ ret' = id
             /\ returned' = returned \cup {id}
             /\ UNCHANGED cancelled
     /\ UNCHANGED <<faults, manager, connections, session, pc, held, conns, api>>

\* SPF_Start without the test of instance.running
SPF_Start_NoRunningCheck(id) ==
  /\ api = Idle
  /\ (id \in instances /\ Startable(id) # {}) => FreeGens(id) # {}
  /\ IF id \notin instances
     THEN ret' = -1 /\ UNCHANGED <<running, pc>>
     ELSE /\ pc' = [g \in Sups |->
                      IF /\ Fwd(g) \in Startable(id)
                         /\ Gen(g) = CHOOSE n \in FreeGens(id) :
                                       \A m \in FreeGens(id) : n <= m
                      THEN "loop" ELSE pc[g]]
          /\ running' = [running EXCEPT ![id] = TRUE]
          /\ ret' = 0
  /\ UNCHANGED <<faults, manager, registry, cancelled, connections, session, held, conns, api>>

\* SPF_Start: -1 for an unknown ID, 0 when already running, else one
\* supervisor goroutine per forward whose server section exists
SPF_Start(id) ==
  /\ api = Idle
  /\ (id \in instances /\ ~running[id] /\ Startable(id) # {}) => FreeGens(id) # {}
  /\ IF id \notin instances
     THEN ret' = -1 /\ UNCHANGED <<running, pc>>
     ELSE IF running[id]
     THEN ret' = 0 /\ UNCHANGED <<running, pc>>
     ELSE /\ pc' = [g \in Sups |->
                      IF /\ Fwd(g) \in Startable(id)
                         /\ FreeGens(id) # {}
                         /\ Gen(g) = CHOOSE n \in FreeGens(id) :
                                       \A m \in FreeGens(id) : n <= m
                      THEN "loop" ELSE pc[g]]
          /\ running' = [running EXCEPT ![id] = TRUE]
          /\ ret' = 0
  /\ UNCHANGED <<faults, manager, registry, cancelled, connections, session, held, conns, api>>

\* SPF_Stop up to instance.cancel(): -1 for an unknown ID, 0 when not running
SPF_Stop(id) ==
  /\ api = Idle
  /\ IF id \notin instances
     THEN ret' = -1 /\ UNCHANGED <<cancelled, api>>
     ELSE IF ~running[id]
     THEN ret' = 0 /\ UNCHANGED <<cancelled, api>>
     ELSE /\ cancelled' = [cancelled EXCEPT ![id] = TRUE]
          /\ api' = [op |-> "Stop", id |-> id]
          /\ UNCHANGED ret
  /\ UNCHANGED <<faults, manager, registry, running, connections, session, pc, held, conns>>

\* SPF_Stop from connManager.CloseAll() on
SPF_StopCloseAll ==
  /\ api.op = "Stop"
  /\ ~LockHeld(api.id)
  /\ CloseAll(api.id)
  /\ running' = [running EXCEPT ![api.id] = FALSE]
  /\ ret' = 0
  /\ api' = Idle
  /\ UNCHANGED <<faults, manager, registry, cancelled, pc, held, conns>>

\* SPF_Destroy up to instance.cancel(): -1 for an unknown ID
SPF_Destroy(id) ==
  /\ api = Idle
  /\ IF id \notin instances
     THEN ret' = -1 /\ UNCHANGED <<cancelled, api>>
     ELSE /\ cancelled' = [cancelled EXCEPT ![id] = TRUE]
          /\ api' = [op |-> "Destroy", id |-> id]
          /\ UNCHANGED ret
  /\ UNCHANGED <<faults, manager, registry, running, connections, session, pc, held, conns>>

\* SPF_Destroy from connManager.CloseAll() on: the ID is unregistered
SPF_DestroyCloseAll ==
  /\ api.op = "Destroy"
  /\ ~LockHeld(api.id)
  /\ CloseAll(api.id)
  /\ instances' = instances \ {api.id}
  /\ ret' = 0
  /\ api' = Idle
  /\ UNCHANGED <<faults, manager, instanceCounter, cfg, returned, running, cancelled, pc, held,
                 conns>>

\* SPF_IsRunning without the test that the ID is registered
SPF_IsRunning_NoExistsCheck(id) ==
  /\ api = Idle
  /\ ret' = IF id \in instances /\ running[id] THEN 1 ELSE 0
  /\ UNCHANGED <<faults, manager, registry, running, cancelled, connections, session, pc, held,
                 conns, api>>

\* SPF_IsRunning: -1 for an unknown ID, else the running flag
SPF_IsRunning(id) ==
  /\ api = Idle
  /\ ret' = IF id \notin instances THEN -1 ELSE IF running[id] THEN 1 ELSE 0
  /\ UNCHANGED <<faults, manager, registry, running, cancelled, connections, session, pc, held,
                 conns, api>>

ApiNext ==
  \/ \E id \in CallIds : SPF_Start(id)
  \/ \E id \in CallIds : SPF_Stop(id)
  \/ SPF_StopCloseAll
  \/ \E id \in CallIds : SPF_Destroy(id)
  \/ SPF_DestroyCloseAll
  \/ \E id \in CallIds : SPF_IsRunning(id)

\* ------------------------------------------------------- the library
\* one instance, created from a config file with forward sections
Init ==
  /\ instanceCounter = 1
  /\ instances = {1}
  /\ cfg \in {[i \in InstanceIds |-> IF i = 1 THEN file ELSE "none"] :
              file \in {"local.ini", "remote.ini", "socks.ini", "rsocks.ini",
                        "orphan.ini"}}
  /\ running = [i \in InstanceIds |-> FALSE]
  /\ cancelled = [i \in InstanceIds |-> FALSE]
  /\ connections = [i \in InstanceIds |-> [s \in ServerNames |-> 0]]
  /\ session = [x \in SessionIds |-> NoSession]
  /\ pc = [g \in Sups |-> "none"]
  /\ held = [g \in Sups |-> 0]
  /\ conns = [k \in ConnIds |-> NoConn]
  /\ api = Idle
  /\ ret = 1
  /\ returned = {1}
  /\ faults = 0
  /\ NoManager

Next ==
  \/ ApiNext
  \/ RuntimeNext
  \/ \E k \in ConnIds : handleSocks5Connection(k)

Spec == Init /\ [][Next]_vars

\* the library under the scheduler's fairness: the goroutines as in
\* FairMainSpec, and an API call that has begun runs to its return
FairSpec ==
  /\ Spec
  /\ \A g \in Sups : WF_vars(SupervisorStep(g))
  /\ \A x \in SessionIds : WF_vars(monitorConnection(x))
  /\ WF_vars(SPF_StopCloseAll)
  /\ WF_vars(SPF_DestroyCloseAll)

\* -------------------------------------------------- the instance registry
\* the process before the first SPF_Create
ApiInit ==
  /\ instanceCounter = 0
  /\ instances = {}
  /\ cfg = [i \in InstanceIds |-> "none"]
  /\ running = [i \in InstanceIds |-> FALSE]
  /\ cancelled = [i \in InstanceIds |-> FALSE]
  /\ connections = [i \in InstanceIds |-> [s \in ServerNames |-> 0]]
  /\ session = [x \in SessionIds |-> NoSession]
  /\ pc = [g \in Sups |-> "none"]
  /\ held = [g \in Sups |-> 0]
  /\ conns = [k \in ConnIds |-> NoConn]
  /\ api = Idle
  /\ ret = 0
  /\ returned = {}
  /\ faults = 0
  /\ NoManager

ApiSpecNext ==
  \/ \E file \in {"empty.ini", "missing.ini"} : SPF_Create(file)
  \/ ApiNext

ApiSpec == ApiInit /\ [][ApiSpecNext]_vars

\* ------------------------------------------------------------ claims
\* the SSH clients of instance i that are open (dialed, neither closed nor lost)
LiveSessions(i) ==
  {x \in SessionIds : session[x].inst = i /\ session[x].st = "open"}

\* the supervisors that have been spawned and have not returned
LiveSups == {g \in Sups : pc[g] \notin {"none", "done"}}

\* C1: after the SSH session a listening forward uses is lost, the forward
\* eventually listens on an open, freshly dialed session again, for every
\* direction (unless the sessions the model may open are used up)
C1_ServiceRestored ==
  \A g \in Sups :
    (ListenerBound(g) /\ session[held[g]].st = "lost")
      ~> \/ ListenerBound(g) /\ session[held[g]].st = "open"
         \/ NextSess > MaxSessions

\* C2: forwards bound to the same server share one SSH session: two
\* supervisors that each hold an open session of the same server hold the
\* same session
C2_SharedSession ==
  \A g \in LiveSups : \A h \in LiveSups :
    ( /\ ServerOf(g) = ServerOf(h)
      /\ held[g] # 0 /\ session[held[g]].st = "open"
      /\ held[h] # 0 /\ session[held[h]].st = "open" )
    => held[g] = held[h]

\* C3: the live SSH sessions are never more than the distinct servers the
\* running forwards reference, so never two for the same server
C3_SessionsBounded ==
  \A i \in InstanceIds :
    /\ Cardinality(LiveSessions(i))
         <= Cardinality({ServerOf(g) : g \in {h \in LiveSups : InstOf(h) = i}})
    /\ \A s \in ServerNames :
         Cardinality({x \in LiveSessions(i) : session[x].srv = s}) <= 1

\* C4: once SPF_Stop has returned and every supervisor has returned, the
\* pool is empty, every session the instance opened is closed and no
\* listener is bound
C4_StopReleasesAll ==
  \A i \in instances :
    (api = Idle /\ cancelled[i] /\ ~running[i] /\ LiveSups = {})
    => /\ \A s \in ServerNames : connections[i][s] = 0
       /\ LiveSessions(i) = {}
       /\ \A g \in Sups : ~ListenerBound(g)

\* C5: after the shutdown signal every supervisor eventually returns
C5_SupervisorsStop ==
  \A g \in Sups :
    (pc[g] # "none" /\ cancelled[InstOf(g)]) ~> (pc[g] = "done")

\* C6: SPF_Start on a running instance returns 0, starts no supervisor and
\* leaves running set; SPF_Stop on an instance that is not running returns 0,
\* closes nothing and leaves running clear
C6_StartStopIdempotent ==
  [][\A id \in CallIds :
       /\ (SPF_Start(id) /\ id \in instances /\ running[id])
            => ret' = 0 /\ pc' = pc /\ running'[id]
       /\ (SPF_Stop(id) /\ id \in instances /\ ~running[id])
            => /\ ret' = 0 /\ ~running'[id] /\ api' = Idle
               /\ UNCHANGED <<session, connections, cancelled>>]_vars

\* C6: the instance is running with a supervisor on its listener, the last
\* call (SPF_IsRunning) returned 1, and SPF_Start on it returns 0 and leaves
\* the supervisors as they are
C6_Witness ==
  /\ api = Idle /\ 1 \in instances /\ running[1] /\ ret = 1
  /\ \E g \in Sups : ListenerBound(g)
  /\ ENABLED (SPF_Start(1) /\ ret' = 0 /\ UNCHANGED pc)

\* C7: after SPF_Stop and SPF_Start, while SPF_IsRunning reports 1 every
\* forward with a configured server has a supervisor that has not returned
C7_RestartActive ==
  \A i \in instances :
    (api = Idle /\ running[i])
    => \A f \in Startable(i) : \E n \in 1..MaxStarts : <<f, n>> \in LiveSups

\* C8: SPF_Start, SPF_Stop, SPF_Destroy and SPF_IsRunning on an ID that
\* SPF_Create never returned or that was destroyed return -1 and change
\* nothing; SPF_IsRunning on a known ID returns 1 if running and 0 if not
C8_UnknownId ==
  [][\A id \in CallIds :
       /\ ( /\ id \notin returned \/ id \notin instances
            /\ SPF_Start(id) \/ SPF_Stop(id) \/ SPF_Destroy(id) \/ SPF_IsRunning(id) )
            => /\ ret' = -1
               /\ UNCHANGED <<instanceCounter, instances, cfg, running, cancelled,
                              connections, session, pc, held, conns, api>>
       /\ (id \in instances /\ SPF_IsRunning(id))
            => ret' = IF running[id] THEN 1 ELSE 0]_vars

\* C8: a call on the destroyed instance 1 has returned -1
C8_Witness ==
  api = Idle /\ ret = -1 /\ 1 \in returned /\ 1 \notin instances

\* C9: a successful SPF_Create returns a positive ID it never returned
\* before and registers the instance as not running; when the file cannot be
\* loaded it returns -1 and registers nothing
C9_FreshId ==
  [][\A file \in ConfigFiles :
       SPF_Create(file)
       => IF LoadFails(file)
          THEN ret' = -1 /\ instances' = instances
          ELSE /\ ret' > 0 /\ ret' \notin returned
               /\ ret' \in instances' /\ ~running'[ret']]_vars

\* C9: instance 1 was created and destroyed, and the next SPF_Create has
\* returned 2
C9_Witness ==
  ret = 2 /\ returned = {1, 2} /\ instances = {2}

\* C10: a closed connection of a socks5 or reverse-socks5 forward of the
\* library has been sent the method selection the standalone program sends
C10_SameReplies ==
  \A k \in ConnIds :
    ( /\ conns[k].st = "closed"
      /\ ForwardConfig[conns[k].f].Direction \in {"socks5", "reverse-socks5"} )
    => conns[k].out = methodSelection(conns[k].f, conns[k].in)

\* ====================================================================
\* The SOCKS5 servers and the relay of the standalone program (main.go)
\* ====================================================================
\* the size of the buffer every negotiation message is read into
BufSize == 256
\* payload bytes each peer sends in the data phase
MaxPayload == 2
\* the values of a payload byte
PayloadBytes == {1, 2}

\* n bytes of value b
Rep(n, b) == [j \in 1..n |-> b]

\* clientConn.Read(buf): one Read delivers what the client has sent, up to
\* the size of the buffer; the rest stays in the socket.  The client sends
\* each message in one piece and the network delivers it whole: the most a
\* single Read can return.
Read(stream) ==
  SubSeq(stream, 1, IF Len(stream) < BufSize THEN Len(stream) ELSE BufSize)

Unread(stream) == SubSeq(stream, Len(Read(stream)) + 1, Len(stream))

\* the bytes of the strings of the configuration
Bytes(str) ==
  CASE str = "u" -> <<117>>
    [] str = "p" -> <<112>>
    [] OTHER     -> <<>>

\* handleUsernamePasswordAuth: what the server writes in answer to the
\* sub-negotiation message buf (nothing when the message is rejected unread)
handleUsernamePasswordAuth(f, buf) ==
  LET n == Len(buf)
      userLen == buf[2]
      passLen == buf[3 + userLen]
      username == SubSeq(buf, 3, 2 + userLen)
      password == SubSeq(buf, 4 + userLen, 3 + userLen + passLen)
  IN IF n < 2 \/ buf[1] # 1 THEN <<>>
     ELSE IF n < 2 + userLen + 1 THEN <<>>
     ELSE IF n < 2 + userLen + 1 + passLen THEN <<>>
     ELSE IF /\ username = Bytes(ForwardConfig[f].Socks5User)
             /\ password = Bytes(ForwardConfig[f].Socks5Pass)
          THEN <<1, 0>> ELSE <<1, 1>>

\* the parse of the connection request buf: the target (address bytes and
\* port) or the empty sequence when the request is rejected
parseRequest(buf) ==
  LET n == Len(buf)
      domainLen == buf[5]
      port(j) == (buf[j] * 256 + buf[j + 1]) % 65536
  IN IF n < 4 \/ buf[1] # 5 \/ buf[2] # 1 THEN <<>>
     ELSE CASE buf[4] = 1 ->
                 IF n < 10 THEN <<>> ELSE <<SubSeq(buf, 5, 8), port(9)>>
            [] buf[4] = 3 ->
                 IF n < 5 THEN <<>>
                 ELSE IF n < 5 + domainLen + 2 THEN <<>>
                 ELSE <<SubSeq(buf, 6, 5 + domainLen), port(6 + domainLen)>>
            [] buf[4] = 4 ->
                 IF n < 22 THEN <<>> ELSE <<SubSeq(buf, 5, 20), port(21)>>
            [] OTHER -> <<>>

\* the replies to a request
ConnectionFailed == <<5, 5, 0, 1, 0, 0, 0, 0, 0, 0>>
Succeeded        == <<5, 0, 0, 1, 0, 0, 0, 0, 0, 0>>

\* ------------------------------------------------- what clients send
\* a greeting that offers the given methods
Greeting(methods) == <<5, Len(methods)>> \o methods

ClientGreetings ==
  { Greeting(<<0>>), Greeting(<<2>>), Greeting(<<0, 2>>), Greeting(<<>>),
    Greeting(<<1>>), Greeting(<<0, 2>> \o Rep(252, 1)),
    Greeting(<<0, 2>> \o Rep(253, 1)),
    <<4, 1, 0>>, <<5>>, <<5, 3, 0>> }

\* a username/password message
AuthMessage(user, pass) == <<1, Len(user)>> \o user \o <<Len(pass)>> \o pass

ClientAuths ==
  { AuthMessage(<<117>>, <<112>>), AuthMessage(<<117>>, <<113>>),
    AuthMessage(<<118>>, <<112>>), AuthMessage(<<117, 117>>, <<112>>),
    AuthMessage(<<>>, <<>>), AuthMessage(Rep(255, 117), <<112>>),
    <<2, 1, 117, 1, 112>>, <<1>> }

\* a request with command cmd and address type atyp
Request(cmd, atyp, addr) == <<5, cmd, 0, atyp>> \o addr \o <<0, 80>>

Domain(len) == <<len>> \o Rep(len, 97)

ClientRequests ==
  { Request(1, 1, <<10, 0, 0, 1>>), Request(1, 3, Domain(1)),
    Request(1, 3, Domain(249)), Request(1, 3, Domain(250)),
    Request(1, 3, Domain(255)), Request(1, 4, Rep(16, 0)),
    Request(2, 1, <<10, 0, 0, 1>>), Request(3, 1, <<10, 0, 0, 1>>),
    Request(1, 2, <<10, 0, 0, 1>>), Request(1, 0, <<10, 0, 0, 1>>),
    <<5, 1, 0, 1, 10, 0>>, <<4, 1, 0, 1, 10, 0, 0, 1, 0, 80>> }

SocksKinds == {"socks5", "reverse-socks5"}

\* everything but the accepted connections
others == <<faults, manager, registry, running, cancelled, connections, session, pc, held,
            api, ret>>

\* the client writes the next message of the negotiation, whole, when the
\* server has read the one before
ClientSends(k) ==
  LET c == conns[k]
  IN /\ c.f # "" /\ ForwardConfig[c.f].Direction \in SocksKinds
     /\ c.st \in {"accepted", "auth", "request"}
     /\ c.in = <<>> /\ ~c.ceof
     /\ \E msg \in (CASE c.st = "accepted" -> ClientGreetings
                      [] c.st = "auth"     -> ClientAuths
                      [] OTHER             -> ClientRequests) :
          conns' = [conns EXCEPT ![k].in = msg]
     /\ UNCHANGED others

\* the client writes a payload byte
ClientWrites(k, b) ==
  LET c == conns[k]
  IN /\ \/ c.st = "relay"
        \/ c.st = "accepted" /\ ForwardConfig[c.f].Direction = "local"
     /\ ~c.ceof
     /\ Len(c.up) + Len(c.in) < MaxPayload
     /\ conns' = [conns EXCEPT ![k].in = Append(@, b)]
     /\ UNCHANGED others

\* the client shuts down its sending side and keeps reading
ClientShutdown(k) ==
  /\ conns[k].st \in {"accepted", "auth", "request", "relay"}
  /\ ~conns[k].ceof
  /\ conns' = [conns EXCEPT ![k].ceof = TRUE]
  /\ UNCHANGED others

\* the target writes a payload byte
TargetWrites(k, b) ==
  LET c == conns[k]
  IN /\ c.st = "relay"
     /\ ~c.teof
     /\ Len(c.down) + Len(c.ans) < MaxPayload
     /\ conns' = [conns EXCEPT ![k].ans = Append(@, b)]
     /\ UNCHANGED others

\* the target shuts down its sending side and keeps reading
TargetShutdown(k) ==
  /\ conns[k].st = "relay"
  /\ ~conns[k].teof
  /\ conns' = [conns EXCEPT ![k].teof = TRUE]
  /\ UNCHANGED others

\* --------------------------------------------- the SOCKS5 negotiation
\* handleConnection of socks5Server and reverseSocks5Server: the greeting is
\* read and the method selection written
socks5Greeting(k) ==
  LET c == conns[k]
      sel == methodSelection(c.f, Read(c.in))
  IN /\ c.st = "accepted"
     /\ ForwardConfig[c.f].Direction \in SocksKinds
     /\ c.in # <<>>
     /\ conns' = [conns EXCEPT ![k].in = Unread(c.in),
                               ![k].out = @ \o sel,
                               ![k].st = IF sel = <<>> \/ sel[2] = 255 THEN "closed"
                                         ELSE IF sel[2] = 2 THEN "auth"
                                         ELSE "request"]
     /\ UNCHANGED others

\* the sub-negotiation message is read and the status written
socks5Auth(k) ==
  LET c == conns[k]
      status == handleUsernamePasswordAuth(c.f, Read(c.in))
  IN /\ c.st = "auth"
     /\ c.in # <<>>
     /\ conns' = [conns EXCEPT ![k].in = Unread(c.in),
                               ![k].out = @ \o status,
                               ![k].st = IF status = <<1, 0>> THEN "request"
                                         ELSE "closed"]
     /\ UNCHANGED others

\* the request is read and parsed
socks5Request(k) ==
  LET c == conns[k]
      target == parseRequest(Read(c.in))
  IN /\ c.st = "request"
     /\ c.in # <<>>
     /\ conns' = [conns EXCEPT ![k].in = Unread(c.in),
                               ![k].target = target,
                               ![k].st = IF target = <<>> THEN "closed" ELSE "dial"]
     /\ UNCHANGED others

\* a Read of the negotiation meets the end of the client's stream
socks5ReadError(k) ==
  /\ conns[k].st \in {"accepted", "auth", "request"}
  /\ ForwardConfig[conns[k].f].Direction \in SocksKinds
  /\ conns[k].in = <<>> /\ conns[k].ceof
  /\ conns' = [conns EXCEPT ![k].st = "closed"]
  /\ UNCHANGED others

\* a dialer that hands its failure to the supervisor of the forward
socks5Dial_FailsSupervisor(k, ok) ==
  LET c == conns[k]
  IN /\ c.st = "dial"
     /\ (ok /\ ForwardConfig[c.f].Direction = "socks5") => session[c.sess].st = "open"
     /\ conns' = [conns EXCEPT ![k].dials = Append(@, c.target),
                               ![k].out = @ \o (IF ok THEN Succeeded
                                                ELSE ConnectionFailed),
                               ![k].st = IF ok THEN "relay" ELSE "closed",
                               ![k].upstream = IF ok THEN "open" ELSE "none"]
     /\ pc' = [g \in Sups |-> IF ~ok /\ Fwd(g) = c.f /\ pc[g] = "accept"
                              THEN "fail" ELSE pc[g]]
     /\ UNCHANGED <<faults, manager, registry, running, cancelled, connections, session,
                    held, api, ret>>

\* a server that repeats the reply once the target is connected
socks5Dial_ReplyTwice(k, ok) ==
  LET c == conns[k]
  IN /\ c.st = "dial"
     /\ (ok /\ ForwardConfig[c.f].Direction = "socks5") => session[c.sess].st = "open"
     /\ conns' = [conns EXCEPT ![k].dials = Append(@, c.target),
                               ![k].out = @ \o (IF ok THEN Succeeded \o Succeeded
                                                ELSE ConnectionFailed),
                               ![k].st = IF ok THEN "relay" ELSE "closed",
                               ![k].upstream = IF ok THEN "open" ELSE "none"]
     /\ UNCHANGED others

\* the target is dialed (through the SSH client by the forward server, from
\* this host by the reverse server) and the reply written
socks5Dial(k, ok) ==
  LET c == conns[k]
  IN /\ c.st = "dial"
     /\ (ok /\ ForwardConfig[c.f].Direction = "socks5") => session[c.sess].st = "open"
     /\ conns' = [conns EXCEPT ![k].dials = Append(@, c.target),
                               ![k].out = @ \o (IF ok THEN Succeeded
                                                ELSE ConnectionFailed),
                               ![k].st = IF ok THEN "relay" ELSE "closed",
                               ![k].upstream = IF ok THEN "open" ELSE "none"]
     /\ UNCHANGED others

\* a handler that returns on the failed Write without closing the target
socks5ReplyFails_NoDefer(k) ==
  LET c == conns[k]
  IN /\ c.st = "dial"
     /\ ForwardConfig[c.f].Direction = "socks5" => session[c.sess].st = "open"
     /\ conns' = [conns EXCEPT ![k].dials = Append(@, c.target),
                               ![k].st = "closed",
                               ![k].upstream = "open"]
     /\ UNCHANGED others

\* the target is connected but the Write of the reply returns an error (the
\* client has gone): the handler returns and the deferred Close calls close
\* the target and the client
socks5ReplyFails(k) ==
  LET c == conns[k]
  IN /\ c.st = "dial"
     /\ ForwardConfig[c.f].Direction = "socks5" => session[c.sess].st = "open"
     /\ conns' = [conns EXCEPT ![k].dials = Append(@, c.target),
                               ![k].st = "closed",
                               ![k].upstream = "closed"]
     /\ UNCHANGED others

\* ------------------------------------------------------------ the relay
\* copyConn(target, client): io.Copy moves what the client has sent
copyUp(k) ==
  /\ conns[k].st = "relay"
  /\ conns[k].in # <<>>
  /\ conns' = [conns EXCEPT ![k].up = @ \o conns[k].in, ![k].in = <<>>]
  /\ UNCHANGED others

\* copyConn(client, target): io.Copy moves what the target has sent
copyDown(k) ==
  /\ conns[k].st = "relay"
  /\ conns[k].ans # <<>>
  /\ conns' = [conns EXCEPT ![k].down = @ \o conns[k].ans, ![k].ans = <<>>]
  /\ UNCHANGED others

\* a relay that passes the end of the client's stream on to the target and
\* keeps the client open for the answer
copyUpDone_HalfClose(k) ==
  /\ conns[k].st = "relay"
  /\ conns[k].in = <<>> /\ conns[k].ceof
  /\ conns' = [conns EXCEPT ![k].upstream = "closed"]
  /\ UNCHANGED others

\* io.Copy from the client returns at the end of its stream; the deferred
\* Close calls of copyConn close the target and the client
copyUpDone(k) ==
  /\ conns[k].st = "relay"
  /\ conns[k].in = <<>> /\ conns[k].ceof
  /\ conns' = [conns EXCEPT ![k].st = "closed", ![k].upstream = "closed"]
  /\ UNCHANGED others

\* io.Copy from the target returns at the end of its stream; the deferred
\* Close calls of copyConn close the client and the target
copyDownDone(k) ==
  /\ conns[k].st = "relay"
  /\ conns[k].ans = <<>> /\ conns[k].teof
  /\ conns' = [conns EXCEPT ![k].st = "closed", ![k].upstream = "closed"]
  /\ UNCHANGED others

\* ------------------------------------------ one accepted connection
\* The standalone program with a local forward, a SOCKS5 forward without
\* credentials and a reverse SOCKS5 forward with credentials, at the moment
\* one of the listeners has accepted a connection: the session of s1 is
\* open, the three supervisors are in their accept loops.

ConnInit ==
  /\ instanceCounter = 0
  /\ instances = {}
  /\ cfg = [i \in InstanceIds |-> IF i = 1 THEN "proxy.ini" ELSE "none"]
  /\ running = [i \in InstanceIds |-> FALSE]
  /\ cancelled = [i \in InstanceIds |-> FALSE]
  /\ connections = [i \in InstanceIds |->
                      [s \in ServerNames |-> IF i = 1 /\ s = "s1" THEN 1 ELSE 0]]
  /\ session = [x \in SessionIds |->
                  IF x = 1 THEN [st |-> "open", srv |-> "s1", inst |-> 1, mon |-> "run"]
                  ELSE NoSession]
  /\ pc = [g \in Sups |->
             IF Fwd(g) \in forwardConfigs("proxy.ini") /\ Gen(g) = 1
             THEN "accept" ELSE "none"]
  /\ held = [g \in Sups |->
               IF Fwd(g) \in forwardConfigs("proxy.ini") /\ Gen(g) = 1
               THEN 1 ELSE 0]
  /\ \E f \in forwardConfigs("proxy.ini") :
       conns = [k \in ConnIds |->
                  IF k = 1 THEN [NoConn EXCEPT !.st = "accepted", !.f = f, !.sess = 1]
                  ELSE NoConn]
  /\ api = Idle
  /\ ret = 0
  /\ returned = {}
  /\ faults = 0
  /\ NoManager

ConnNext ==
  \E k \in ConnIds :
    \/ ClientSends(k)
    \/ \E b \in PayloadBytes : ClientWrites(k, b)
    \/ ClientShutdown(k)
    \/ \E b \in PayloadBytes : TargetWrites(k, b)
    \/ TargetShutdown(k)
    \/ socks5Greeting(k)
    \/ socks5Auth(k)
    \/ socks5Request(k)
    \/ socks5ReadError(k)
    \/ \E ok \in BOOLEAN : socks5Dial(k, ok)
    \/ socks5ReplyFails(k)
    \/ \E ok \in BOOLEAN : localDial(k, ok)
    \/ copyUp(k)
    \/ copyDown(k)
    \/ copyUpDone(k)
    \/ copyDownDone(k)

ConnSpec == ConnInit /\ [][ConnNext]_vars

\* ---------------------------------------------- claims on the SOCKS5 servers
\* the greeting msg is well formed: VER = 5 and as many methods as announced
WellFormedGreeting(msg) ==
  Len(msg) >= 2 /\ msg[1] = 5 /\ Len(msg) = 2 + msg[2]

\* C11: for every well-formed greeting (VER = 5, any NMETHODS, 0 included) the
\* server answers 05 02 when credentials are configured and method 02 is
\* offered, 05 00 when none are configured and method 00 is offered, 05 FF
\* otherwise; after 05 FF the connection is closed and no further phase runs
C11_MethodSelection ==
  [][\A k \in ConnIds :
       socks5Greeting(k) =>
         LET msg == conns[k].in
             f == conns[k].f
             creds == ForwardConfig[f].Socks5User # "" /\ ForwardConfig[f].Socks5Pass # ""
             offers(m) == \E j \in 3..Len(msg) : msg[j] = m
             expected == IF creds THEN (IF offers(2) THEN 2 ELSE 255)
                         ELSE (IF offers(0) THEN 0 ELSE 255)
         IN WellFormedGreeting(msg) =>
              /\ conns'[k].out = <<5, expected>>
              /\ expected = 255 => conns'[k].st = "closed"]_vars

\* credentials are configured for forward f
RequireAuth(f) ==
  ForwardConfig[f].Socks5User # "" /\ ForwardConfig[f].Socks5Pass # ""

\* the sub-negotiation message msg is well formed: VER = 1, a user name of
\* ULEN bytes and a password of PLEN bytes
WellFormedAuth(msg) ==
  /\ Len(msg) >= 3 /\ msg[1] = 1
  /\ Len(msg) >= 3 + msg[2]
  /\ Len(msg) = 3 + msg[2] + msg[3 + msg[2]]

\* C12: with credentials configured, a connection is in the request, dial or
\* data phase only after the replies 05 02 and 01 00, and 01 00 is written
\* only for the configured user name and password; every other message ends
\* the connection with no dial and no data phase, and a well-formed message
\* with other credentials is answered 01 01 first
C12_AuthGate ==
  [][\A k \in ConnIds :
       /\ socks5Auth(k) =>
            LET msg == conns[k].in
                f == conns[k].f
            IN IF msg = AuthMessage(Bytes(ForwardConfig[f].Socks5User),
                                    Bytes(ForwardConfig[f].Socks5Pass))
               THEN /\ conns'[k].out = conns[k].out \o <<1, 0>>
                    /\ conns'[k].st = "request"
               ELSE /\ conns'[k].st = "closed"
                    /\ conns'[k].dials = <<>>
                    /\ conns'[k].up = <<>> /\ conns'[k].down = <<>>
                    /\ WellFormedAuth(msg) => conns'[k].out = conns[k].out \o <<1, 1>>
       /\ (/\ conns'[k].f # "" /\ ForwardConfig[conns'[k].f].Direction \in SocksKinds
           /\ RequireAuth(conns'[k].f)
           /\ conns'[k].st \in {"request", "dial", "relay"})
          => SubSeq(conns'[k].out, 1, 4) = <<5, 2, 1, 0>>]_vars

\* the step of connection k writes one reply with the given REP byte, closes
\* the connection and dials nothing
Refused(k, rep) ==
  LET was == conns[k].out
      now == conns'[k].out
  IN /\ Len(now) = Len(was) + 10
     /\ SubSeq(now, 1, Len(was)) = was
     /\ now[Len(was) + 1] = 5 /\ now[Len(was) + 2] = rep
     /\ conns'[k].st = "closed"
     /\ conns'[k].dials = <<>>

\* C13: a request with VER = 5 whose CMD is not 01 (CONNECT) is answered with
\* a reply whose REP byte is 07 before the connection is closed, and nothing
\* is dialed
C13_CommandNotSupported ==
  [][\A k \in ConnIds :
       socks5Request(k) =>
         LET msg == conns[k].in
         IN (Len(msg) >= 4 /\ msg[1] = 5 /\ msg[2] # 1) => Refused(k, 7)]_vars

\* C14: a CONNECT request whose ATYP is none of 01, 03, 04 is answered with a
\* reply whose REP byte is 08 before the connection is closed, and nothing is
\* dialed
C14_AddressTypeNotSupported ==
  [][\A k \in ConnIds :
       socks5Request(k) =>
         LET msg == conns[k].in
         IN (Len(msg) >= 4 /\ msg[1] = 5 /\ msg[2] = 1 /\ msg[4] \notin {1, 3, 4})
            => Refused(k, 8)]_vars

\* the request msg is a well-formed CONNECT: VER = 5, CMD = 01, an IPv4
\* address, a domain name of 1..255 bytes or an IPv6 address, and a port
WellFormedConnect(msg) ==
  /\ Len(msg) >= 5 /\ msg[1] = 5 /\ msg[2] = 1
  /\ \/ msg[4] = 1 /\ Len(msg) = 10
     \/ msg[4] = 3 /\ msg[5] >= 1 /\ Len(msg) = 5 + msg[5] + 2
     \/ msg[4] = 4 /\ Len(msg) = 22

\* the address and the port a well-formed CONNECT names
Negotiated(msg) ==
  <<SubSeq(msg, IF msg[4] = 3 THEN 6 ELSE 5, Len(msg) - 2),
    msg[Len(msg) - 1] * 256 + msg[Len(msg)]>>

\* the bytes of the method selection and of the authentication of forward f
NegotiationLen(f) == IF RequireAuth(f) THEN 4 ELSE 2

\* C15: for a well-formed CONNECT the server dials the negotiated target and
\* then writes exactly one reply: 05 00 00 01 and six zero bytes after the
\* dial succeeded and before any payload byte is relayed, or a reply with
\* REP = 05 after the dial failed, upon which the connection is closed and
\* no payload is relayed
C15_DialThenReply ==
  [][\A k \in ConnIds :
       LET c == conns[k]
           d == conns'[k]
       IN /\ socks5Request(k) =>
               (WellFormedConnect(c.in) =>
                  /\ d.st = "dial" /\ d.target = Negotiated(c.in)
                  /\ d.out = c.out /\ d.dials = <<>>)
          /\ (c.st = "dial" /\ d # c) =>
               /\ d.dials = <<c.target>>
               /\ \/ d.st = "relay" /\ d.out = c.out \o <<5, 0, 0, 1, 0, 0, 0, 0, 0, 0>>
                  \/ /\ d.st = "closed" /\ Len(d.out) = Len(c.out) + 10
                     /\ SubSeq(d.out, 1, Len(c.out) + 2) = c.out \o <<5, 5>>
               /\ d.up = <<>> /\ d.down = <<>>
          /\ (c.st # "dial" /\ c.f # "" /\ ForwardConfig[c.f].Direction \in SocksKinds) =>
               /\ d.dials = c.dials
               /\ Len(d.out) <= NegotiationLen(c.f) \/ d.out = c.out
               /\ (d.up # c.up \/ d.down # c.down) =>
                    /\ Len(c.dials) = 1
                    /\ SubSeq(c.out, Len(c.out) - 9, Len(c.out)) = Succeeded]_vars

\* C16 as stated: the server has written at most 10 bytes to the client when
\* the data phase begins, on every negotiation path
C16_AtMostTen ==
  \A k \in ConnIds :
    (conns[k].f # "" /\ ForwardConfig[conns[k].f].Direction \in SocksKinds)
    => Len(conns[k].out) <= 10

\* C16: the server has written at most 14 bytes to the client when the data
\* phase begins: the method selection (2), the authentication status (2, only
\* with credentials configured) and one reply (10); 12 without credentials
C16_AtMostFourteen ==
  \A k \in ConnIds :
    (conns[k].f # "" /\ ForwardConfig[conns[k].f].Direction \in SocksKinds)
    => /\ Len(conns[k].out) <= NegotiationLen(conns[k].f) + 10
       /\ Len(conns[k].out) <= 14

\* C16: an authenticated connection has entered the data phase with the 14
\* bytes of the three replies written
C16_Witness ==
  \E k \in ConnIds :
    /\ conns[k].st = "relay" /\ RequireAuth(conns[k].f)
    /\ conns[k].out = <<5, 2, 1, 0>> \o Succeeded

\* C17: a CONNECT request with ATYP = 03 is accepted for every domain length
\* from 1 to 255: the length byte, the domain bytes and the big-endian port
\* are parsed and the server proceeds to dial that target
C17_DomainAccepted ==
  [][\A k \in ConnIds :
       socks5Request(k) =>
         LET msg == conns[k].in
         IN (/\ Len(msg) >= 5 /\ msg[1] = 5 /\ msg[2] = 1 /\ msg[4] = 3
             /\ msg[5] \in 1..255 /\ Len(msg) = 5 + msg[5] + 2)
            => /\ conns'[k].st = "dial"
               /\ conns'[k].target[1] = SubSeq(msg, 6, 5 + msg[5])
               /\ conns'[k].target[2] = msg[6 + msg[5]] * 256 + msg[7 + msg[5]]]_vars

\* C18: in the data phase the bytes handed to the target and those still on
\* their way are what the client has sent, in order, and likewise for the
\* answer; when the relay ends while both peers still read, no byte either of
\* them has sent is left undelivered
C18_RoundTrip ==
  [][\A k \in ConnIds :
       LET c == conns[k]
           d == conns'[k]
           grows(old, new) == new = old \/ \E b \in PayloadBytes : new = Append(old, b)
       IN (c.st = "relay") =>
            /\ grows(c.up \o c.in, d.up \o d.in)
            /\ grows(c.down \o c.ans, d.down \o d.ans)
            /\ d.st = "closed" => c.in = <<>> /\ c.ans = <<>>]_vars

\* ------------------------------------------ claims on the configuration
\* SPF_GetLastError: the text the library hands out as the last error
SPF_GetLastError == ""

\* the forwards of instance i whose server name matches no server section
Orphans(i) == forwardConfigs(cfg[i]) \ Startable(i)

\* C19: a forward whose server name matches no server section stays idle
\* while the instance runs (no supervisor, no session dialed for its server,
\* no connection accepted for it) and is reported with ConfigValidationError
\* as the last error; the other forwards have been started
C19_OrphanIdleAndReported ==
  \A i \in instances :
    (running[i] /\ Orphans(i) # {}) =>
      /\ \A f \in Orphans(i) :
           /\ \A n \in 1..MaxStarts : pc[<<f, n>>] = "none" /\ held[<<f, n>>] = 0
           /\ \A x \in SessionIds : session[x].srv # ForwardConfig[f].ServerName
           /\ \A k \in ConnIds : conns[k].f # f
           /\ SPF_GetLastError = "ConfigValidationError"
      /\ \A f \in Startable(i) : \E n \in 1..MaxStarts : pc[<<f, n>>] # "none"

\* the directions connectAndForward knows
ValidDirections == {"local", "remote", "socks5", "reverse-socks5"}

\* C20: no SSH session is dialed, removed from the pool or closed on behalf
\* of a forward whose direction is none of the four: while the program runs
\* with such forwards only, no session has been opened and the pool is empty
C20_InvalidDirectionIdle ==
  (\A f \in forwardConfigs(cfg[1]) : ForwardConfig[f].Direction \notin ValidDirections)
  => /\ \A x \in SessionIds : session[x] = NoSession
     /\ \A s \in ServerNames : connections[1][s] = 0

\* exactly one of socks5_user and socks5_pass is set for forward f
HalfCredentials(f) ==
  (ForwardConfig[f].Socks5User = "") # (ForwardConfig[f].Socks5Pass = "")

\* C21: a socks5 or reverse-socks5 forward configured with exactly one of
\* socks5_user and socks5_pass is never served as a proxy that accepts the
\* no-authentication method: no connection of such a forward is answered 05 00
C21_CredentialsPaired ==
  \A k \in ConnIds :
    (/\ conns[k].f # "" /\ ForwardConfig[conns[k].f].Direction \in SocksKinds
     /\ HalfCredentials(conns[k].f))
    => ~(Len(conns[k].out) >= 2 /\ SubSeq(conns[k].out, 1, 2) = <<5, 0>>)

\* ====================================================================
\* The standalone program while it serves: listeners and connections
\* ====================================================================
\* connections a listener's clients hold at the same time
MaxInFlight == 2

\* the connections of the serving program
Slots == 1..MaxInFlight

\* The program run with a local forward and a SOCKS5 forward with
\* credentials, once both supervisors have bound their listeners on the
\* session of s1; clients come and go, MaxInFlight at a time.
ServeInit ==
  /\ instanceCounter = 0
  /\ instances = {}
  /\ cfg = [i \in InstanceIds |-> IF i = 1 THEN "serve.ini" ELSE "none"]
  /\ running = [i \in InstanceIds |-> FALSE]
  /\ cancelled = [i \in InstanceIds |-> FALSE]
  /\ connections = [i \in InstanceIds |->
                      [s \in ServerNames |-> IF i = 1 /\ s = "s1" THEN 1 ELSE 0]]
  /\ session = [x \in SessionIds |->
                  IF x = 1 THEN [st |-> "open", srv |-> "s1", inst |-> 1, mon |-> "run"]
                  ELSE NoSession]
  /\ pc = [g \in Sups |->
             IF Fwd(g) \in forwardConfigs("serve.ini") /\ Gen(g) = 1
             THEN "accept" ELSE "none"]
  /\ held = [g \in Sups |->
               IF Fwd(g) \in forwardConfigs("serve.ini") /\ Gen(g) = 1
               THEN 1 ELSE 0]
  /\ conns = [k \in Slots |-> NoConn]
  /\ api = Idle
  /\ ret = 0
  /\ returned = {}
  /\ faults = 0
  /\ NoManager

ServeNext ==
  \/ \E g \in Sups : \E k \in Slots : Accept(g, k, <<>>)
  \/ \E g \in Sups : acceptLoop(g)
  \/ \E k \in Slots : ClientSends(k)
  \/ \E k \in Slots : socks5Greeting(k)
  \/ \E k \in Slots : socks5Auth(k)
  \/ \E k \in Slots : socks5Request(k)
  \/ \E k \in Slots : \E ok \in BOOLEAN : socks5Dial(k, ok)
  \/ \E k \in Slots : \E ok \in BOOLEAN : localDial(k, ok)
  \/ \E k \in Slots : copyConn(k)
  \/ \E k \in Slots : Reap(k)
  \/ \E x \in SessionIds : SessionLost(x)
  \/ \E x \in SessionIds : monitorConnection(x)

ServeSpec == ServeInit /\ [][ServeNext]_vars

\* C22: a step in which an accepted connection ends (SOCKS5 protocol error,
\* failed dial, end of a copy) changes nothing but that connection: every
\* supervisor stays where it is, with its listener open and out of the
\* back-off, the pool and the sessions are untouched, and the other
\* connections in flight are as they were
C22_ConnectionErrorsLocal ==
  [][\A k \in Slots :
       (conns[k].st \notin {"free", "closed"} /\ conns'[k].st = "closed")
       => /\ pc' = pc /\ held' = held
          /\ \A g \in Sups : pc[g] # "none" => pc'[g] \in {"acheck", "accept"}
          /\ connections' = connections /\ session' = session
          /\ \A j \in Slots \ {k} : conns'[j] = conns[j]]_vars

\* C22: the dial of one SOCKS5 connection has failed (reply 05 05, closed)
\* while another connection relays and both listeners are open
C22_Witness ==
  \E k \in Slots : \E j \in Slots \ {k} :
    /\ conns[k].st = "closed" /\ Len(conns[k].out) = 14
    /\ SubSeq(conns[k].out, 5, 14) = ConnectionFailed
    /\ conns[j].st = "relay"
    /\ \A f \in forwardConfigs(cfg[1]) : ListenerBound(<<f, 1>>)

\* ------------------------------------------------ claims on the pool
\* C23: no SSH session is dropped from the pool while still open: every
\* session that is open (dialed, neither closed nor lost) is the one the pool
\* of its instance holds for its server
C23_OpenSessionsPooled ==
  \A x \in SessionIds :
    session[x].st = "open" => connections[session[x].inst][session[x].srv] = x

\* The phases of a handler that precede the relay of data.
Negotiating == {"accepted", "auth", "request", "dial"}

C25_ClassifiedByKeys ==
  \A n \in Sections(cfg[1]) :
    LET keys      == Keys(cfg[1], n)
        isServer  == "user" \in keys /\ ({"password", "private_key"} \cap keys # {})
        isForward == "server" \in keys /\ "direction" \in keys
    IN IF n \in {"DEFAULT", "common"}
       THEN n \notin servers(cfg[1]) \cup forwardConfigs(cfg[1])
       ELSE /\ n \in servers(cfg[1]) <=> (isServer /\ ~isForward)
            /\ n \in forwardConfigs(cfg[1]) <=> (isForward /\ ~isServer)

\* C27: removing server S from the pool closes the cached session and drops
\* its entry, and touches no other entry; with no cached session it changes
\* nothing; while S has no entry a get for S returns no cached session and
\* goes on to dial
C27_RemoveClosesAndDrops ==
  [][\A g \in Sups :
       LET i == InstOf(g)
           s == ServerOf(g)
           x == connections[i][s]
       IN /\ (pc[g] = "fail" /\ pc'[g] = "backoff")
             => /\ connections' = [connections EXCEPT ![i][s] = 0]
                /\ x # 0 => session' = [session EXCEPT ![x].st = "closed"]
                /\ x = 0 => session' = session
          /\ (pc[g] \in {"get", "create"} /\ pc'[g] # pc[g] /\ x = 0)
             => (pc'[g] \in {"create", "dial"} /\ held'[g] = 0)]_vars

\* A supervisor removed the open session of its server; the next get dialed
\* a new one, which is the cached session now.
C27_Witness ==
  \E x, y \in SessionIds :
    /\ x # y
    /\ session[x].st = "closed"
    /\ session[y].st = "open"
    /\ session[y].srv = session[x].srv
    /\ connections[1][session[y].srv] = y

\* the SSH clients in the pool of instance i
Pooled(i) == {connections[i][s] : s \in ServerNames} \ {0}

\* C28: close_all closes every session that is in the pool, touches no other
\* session and leaves the pool empty; on an empty pool (a second close_all,
\* as SPF_Destroy after SPF_Stop) it closes nothing and changes nothing
C28_CloseAllIdempotent ==
  [][(api.op \in {"Stop", "Destroy"} /\ api' = Idle)
     => /\ \A x \in SessionIds :
             session'[x] = IF x \in Pooled(api.id)
                           THEN [session[x] EXCEPT !.st = "closed"]
                           ELSE session[x]
        /\ \A s \in ServerNames : connections'[api.id][s] = 0
        /\ \A i \in InstanceIds \ {api.id} : connections'[i] = connections[i]
        /\ Pooled(api.id) = {} => (session' = session /\ connections' = connections)]_vars

\* SPF_Destroy has run its close_all after SPF_Stop ran one that closed a
\* session: the instance is gone, stopped before, and its pool is empty.
C28_Witness ==
  /\ api = Idle
  /\ 1 \notin instances
  /\ ~running[1]
  /\ faults = 0
  /\ NoManager
  /\ Pooled(1) = {}
  /\ \E x \in SessionIds : session[x].st = "closed" /\ session[x].inst = 1

\* session x is the pool's entry of some server
InPool(x) == \E i \in InstanceIds, s \in ServerNames : connections[i][s] = x

\* C29: once the keep-alive of session A cannot succeed any more (A is lost
\* or closed), A's worker evicts and terminates; the step that ends the
\* worker leaves the server of A without an entry, so that the next get
\* dials; from then on A is never in the pool and its worker never runs
\* again; a session gets its worker in the step that stores it, and only then
C29_EvictAndExit ==
  /\ \A x \in SessionIds :
       (session[x].mon = "run" /\ session[x].st \in {"lost", "closed"})
         ~> (session[x].mon = "done" /\ ~InPool(x))
  /\ [](\A x \in SessionIds : session[x].mon = "done" => ~InPool(x))
  /\ [][\A x \in SessionIds :
         /\ (session[x].mon = "run" /\ session'[x].mon = "done")
            => connections'[session[x].inst][session[x].srv] = 0
         /\ session[x].mon = "done" => session'[x].mon = "done"
         /\ (session[x].mon = "none" /\ session'[x].mon # "none")
            => /\ session'[x].mon = "run"
               /\ session'[x].st = "open"
               /\ connections'[session'[x].inst][session'[x].srv] = x
         /\ (~InPool(x) /\ InPool(x)') => session[x].mon = "none"]_vars

\* The worker of a lost session has evicted and returned, and a later get has
\* dialed a new session, whose own worker runs.
C29_Witness ==
  \E x, y \in SessionIds :
    /\ session[x].st = "lost"
    /\ session[x].mon = "done"
    /\ session[y].st = "open"
    /\ session[y].mon = "run"
    /\ session[y].srv = session[x].srv
    /\ connections[1][session[y].srv] = y

\* C30: in a supervisor an error of get (the dial) or of run_once (the
\* listen, the accept) leads to the removal of the forward's server from the
\* pool and then to the wait; the wait ends by the timer or by shutdown only;
\* get is called from the top of the loop only, which an error reaches
\* through the wait only; once shutdown is signalled a supervisor that waits
\* or is back at the top of the loop terminates and never calls get
C30_RemoveThenWait ==
  [][\A g \in Sups :
       pc'[g] # pc[g] =>
         /\ pc[g] = "dial" => pc'[g] \in {"listen", "fail"}
         /\ pc[g] = "listen" => pc'[g] \in {"acheck", "fail"}
         /\ pc[g] = "accept" => pc'[g] \in {"acheck", "fail"}
         /\ pc[g] = "fail"
            => /\ pc'[g] = "backoff"
               /\ connections'[InstOf(g)][ServerOf(g)] = 0
         /\ pc[g] = "backoff" => pc'[g] \in {"loop", "done"}
         /\ pc'[g] = "get" => pc[g] = "loop"
         /\ pc'[g] = "loop" => pc[g] \in {"none", "acheck", "backoff"}
         /\ (pc[g] \in {"backoff", "loop"} /\ cancelled[InstOf(g)])
            => pc'[g] \in {"loop", "done"} /\ pc'[g] # pc[g]]_vars

\* Shutdown is signalled while a supervisor waits after an error, the entry
\* of its server removed.
C30_Witness ==
  \E g \in Sups :
    /\ pc[g] = "backoff"
    /\ cancelled[InstOf(g)]
    /\ connections[InstOf(g)][ServerOf(g)] = 0

\* ====================================================================
\* The Windows tray application: SshManager
\* ====================================================================
\* _config.PortForwards: the forwards of the configuration and their servers
PortForwards == [p1 |-> "s1", p2 |-> "s1", p3 |-> "s2"]

\* the Go programs, which the tray application does not run
forwarder == <<instanceCounter, instances, cfg, running, cancelled, connections,
               session, pc, held, conns, api, ret, returned, faults>>

\* the connection of a server is lost (IsConnected turns false)
Disconnect(s) ==
  /\ sshClients[s] = "connected"
  /\ sshClients' = [sshClients EXCEPT ![s] = "disconnected"]
  /\ UNCHANGED <<portForwards, portForwardConfigs, reconnect, forwarder>>

\* CheckConnections, the callback of the 10 s timer: a ReconnectServer task is
\* launched for every server of _sshClients that is not connected (one task
\* per server is kept; a tick without a disconnected server does nothing)
CheckConnections ==
  LET disconnectedServers ==
        {s \in ServerNames : sshClients[s] = "disconnected" /\ reconnect[s].at = "none"}
  IN /\ disconnectedServers # {}
     /\ reconnect' = [s \in ServerNames |->
           IF s \in disconnectedServers
           THEN [at |-> "start", configsToRestore |-> {}] ELSE reconnect[s]]
     /\ UNCHANGED <<sshClients, portForwards, portForwardConfigs, forwarder>>

\* ReconnectServer, the block under the lock: the client is disposed and
\* removed, the forwards stopped and cleared, the configs moved to the local
\* list configsToRestore
ReconnectServer(s) ==
  /\ reconnect[s].at = "start"
  /\ sshClients' = [sshClients EXCEPT ![s] = "absent"]
  /\ portForwards' = [portForwards EXCEPT ![s] = {}]
  /\ portForwardConfigs' = [portForwardConfigs EXCEPT ![s] = {}]
  /\ reconnect' = [reconnect EXCEPT ![s] =
        [at |-> "connect", configsToRestore |-> portForwardConfigs[s]]]
  /\ UNCHANGED forwarder

\* ReconnectServer, await ConnectToServer: on success the new client is
\* stored and the restoration begins; on failure the error is logged and the
\* task ends, configsToRestore with it
ConnectToServer(s, ok) ==
  /\ reconnect[s].at = "connect"
  /\ IF ok
     THEN /\ sshClients' = [sshClients EXCEPT ![s] = "connected"]
          /\ reconnect' = [reconnect EXCEPT ![s].at = "restore"]
     ELSE /\ reconnect' = [reconnect EXCEPT ![s] = NoTask]
          /\ UNCHANGED sshClients
  /\ UNCHANGED <<portForwards, portForwardConfigs, forwarder>>

\* ReconnectServer, await AddPortForward(config) for a config of the list:
\* AddPortForward connects the server first if its client is not connected
\* (dialed), then starts the forward (started) and records it and its
\* config; on any failure it returns false and the config is not recorded
AddPortForward(s, p, dialed, started) ==
  LET up   == sshClients[s] = "connected" \/ dialed
      ok   == up /\ started
      rest == reconnect[s].configsToRestore \ {p}
  IN /\ reconnect[s].at = "restore"
     /\ p \in reconnect[s].configsToRestore
     /\ sshClients' = [sshClients EXCEPT ![s] = IF up THEN "connected" ELSE @]
     /\ portForwards' = [portForwards EXCEPT ![s] = IF ok THEN @ \cup {p} ELSE @]
     /\ portForwardConfigs' =
          [portForwardConfigs EXCEPT ![s] = IF ok THEN @ \cup {p} ELSE @]
     /\ reconnect' = [reconnect EXCEPT ![s] =
          IF rest = {} THEN NoTask ELSE [at |-> "restore", configsToRestore |-> rest]]
     /\ UNCHANGED forwarder

\* TrayApplication.Initialize has added every forward of the configuration
ManagerInit ==
  /\ sshClients = [s \in ServerNames |-> "connected"]
  /\ portForwards = [s \in ServerNames |-> {p \in DOMAIN PortForwards : PortForwards[p] = s}]
  /\ portForwardConfigs = portForwards
  /\ reconnect = [s \in ServerNames |-> NoTask]
  /\ instanceCounter = 0
  /\ instances = {}
  /\ cfg = [i \in InstanceIds |-> "none"]
  /\ running = [i \in InstanceIds |-> FALSE]
  /\ cancelled = [i \in InstanceIds |-> FALSE]
  /\ connections = [i \in InstanceIds |-> [s \in ServerNames |-> 0]]
  /\ session = [x \in SessionIds |-> NoSession]
  /\ pc = [g \in Sups |-> "none"]
  /\ held = [g \in Sups |-> 0]
  /\ conns = [k \in ConnIds |-> NoConn]
  /\ api = Idle
  /\ ret = 0
  /\ returned = {}
  /\ faults = 0

ManagerNext ==
  \/ \E s \in ServerNames : Disconnect(s)
  \/ CheckConnections
  \/ \E s \in ServerNames : ReconnectServer(s)
  \/ \E s \in ServerNames : \E ok \in BOOLEAN : ConnectToServer(s, ok)
  \/ \E s \in ServerNames : \E p \in DOMAIN PortForwards :
       \E dialed, started \in BOOLEAN : AddPortForward(s, p, dialed, started)

ManagerSpec == ManagerInit /\ [][ManagerNext]_vars

\* C26: the SshManager forgets neither a server nor a forward over a lost
\* connection: at all times every server of the configuration is in
\* _sshClients, where the connection check finds it, or has a reconnect in
\* progress, and every forward that was active is recorded for its server or
\* kept by that reconnect for restoration (also after a failed attempt)
C26_NeverForgotten ==
  /\ \A s \in ServerNames :
       sshClients[s] # "absent" \/ reconnect[s].at # "none"
  /\ \A p \in DOMAIN PortForwards :
       \/ p \in portForwardConfigs[PortForwards[p]]
       \/ p \in reconnect[PortForwards[p]].configsToRestore

\* C31: a failed SSH dial (refused, timed out, authentication rejected) is
\* not cached: the call returns an error and no client, the pool map and the
\* sessions with their keep-alive workers are as before, and the server has
\* no entry, so that the next get for it dials again
C31_FailedDialNotCached ==
  [][\A g \in Sups :
       (pc[g] = "dial" /\ pc'[g] = "fail")
       => /\ held'[g] = 0
          /\ connections' = connections
          /\ session' = session
          /\ connections'[InstOf(g)][ServerOf(g)] = 0]_vars

\* After a failed dial, with no session ever opened, the supervisor is
\* dialing again.
C31_Witness ==
  \E g \in Sups :
    /\ pc[g] = "dial"
    /\ faults = 1
    /\ \A x \in SessionIds : session[x] = NoSession

\* C32: in the data phase the end of either copy direction closes both
\* endpoints in the same step: a connection leaves the relay closed on both
\* sides, nothing is relayed in either direction afterwards (a half-close is
\* not passed on as one), and at no time is one endpoint of a pair closed
\* while the other is open
C32_BothEndsClosed ==
  [][\A k \in ConnIds :
       /\ (conns[k].st = "relay" /\ conns'[k].st # "relay")
          => (conns'[k].st = "closed" /\ conns'[k].upstream = "closed")
       /\ conns[k].st = "closed"
          => (conns'[k].up = conns[k].up /\ conns'[k].down = conns[k].down)
       /\ conns'[k].upstream = "closed" => conns'[k].st = "closed"
       /\ conns'[k].st = "relay" => conns'[k].upstream = "open"]_vars

\* The client ended its stream after payload was relayed; both ends were
\* closed with an answer of the target still undelivered.
C32_Witness ==
  \E k \in ConnIds :
    /\ conns[k].st = "closed"
    /\ conns[k].upstream = "closed"
    /\ conns[k].ceof /\ ~conns[k].teof
    /\ conns[k].up # <<>>
    /\ conns[k].ans # <<>>

\* C33: while a supervisor is in back-off after an error, no connection pair
\* of its forward keeps relaying: none is in the data phase on an SSH
\* session that is still open
C33_NoRelayInBackoff ==
  \A g \in Sups, k \in ConnIds :
    (pc[g] = "backoff" /\ conns[k].f = Fwd(g))
    => ~(conns[k].st = "relay" /\ session[conns[k].sess].st = "open")

\* C34: at every moment each forward has at most one live supervisor and at
\* most one bound listener, whatever the sequence of start, stop and
\* supervisor restarts
C34_OneSupervisorOneListener ==
  \A f \in ForwardNames :
    /\ Cardinality({n \in 1..MaxStarts : <<f, n>> \in LiveSups}) <= 1
    /\ Cardinality({n \in 1..MaxStarts : ListenerBound(<<f, n>>)}) <= 1

\* C35: a dial in progress for one server blocks no pool operation for
\* another: while createConnection is dialing server X, a supervisor that is
\* about to call GetConnection for a server other than X can complete the call
C35_DialBlocksOwnServerOnly ==
  \A g, h \in Sups :
    (/\ pc[g] = "get" /\ pc[h] = "dial"
     /\ InstOf(g) = InstOf(h) /\ ServerOf(g) # ServerOf(h))
    => ENABLED GetConnection(g)

\* C36: the keep-alive worker of session A only ever evicts A: the step that
\* ends the worker of a session removes no pool entry that holds another
\* session
C36_WorkerEvictsOwnSession ==
  [][\A x \in SessionIds :
       (session[x].mon = "run" /\ session'[x].mon = "done")
       => \A i \in InstanceIds, s \in ServerNames :
            connections'[i][s] # connections[i][s] => connections[i][s] = x]_vars

\* C37: the failure handling of a supervisor closes only the session that
\* supervisor was using when it failed: its RemoveConnection closes no other
\* session, in particular none that another supervisor has stored meanwhile
C37_RemoveClosesOwnSession ==
  [][\A g \in Sups :
       (pc[g] = "fail" /\ pc'[g] = "backoff")
       => \A x \in SessionIds :
            (session[x].st = "open" /\ session'[x].st = "closed") => x = held[g]]_vars

\* C38: failures are isolated between forwards that share a server: when a
\* supervisor handles an error that is local to its forward (the session it
\* was using is still open: a bind failure, a refused listen, an invalid
\* direction), no session on which another forward of the same server is
\* running is closed, and that forward stays running
C38_FailuresIsolated ==
  [][\A g, h \in Sups :
       (/\ pc[g] = "fail" /\ pc'[g] = "backoff"
        /\ held[g] # 0 /\ session[held[g]].st = "open"
        /\ h # g /\ ServerOf(h) = ServerOf(g)
        /\ ListenerBound(h) /\ held[h] # 0 /\ session[held[h]].st = "open")
       => (session'[held[h]].st = "open" /\ ListenerBound(h)')]_vars

\* C39: after SPF_Stop or SPF_Destroy has returned the instance dials no new
\* SSH session and binds no new listener, wherever its supervisors were when
\* the call was made
C39_QuietAfterStop ==
  [][\A i \in InstanceIds :
       (cancelled[i] /\ api = Idle /\ api' = Idle)
       => /\ \A x \in SessionIds :
               session[x].st = "none"
               => (session'[x].st = "none" \/ session'[x].inst # i)
          /\ \A g \in LiveSups :
               (InstOf(g) = i /\ ~ListenerBound(g)) => ~ListenerBound(g)']_vars

\* ====================================================================
\* The SOCKS5 negotiation over a stream delivered in segments
\* ====================================================================
\* TCP carries a byte stream: what one clientConn.Read returns is what has
\* arrived so far, which may be a part of a message or more than one.  Here
\* the client of the accepted connection has a plan (a greeting, the
\* sub-negotiation message when the forward has credentials, a request and
\* a payload) and delivers its bytes in segments of any length; the
\* connection carries the plan and the bytes still to be sent (todo).

SegGreetings == { Greeting(<<0>>), Greeting(<<2>>), Greeting(<<0, 2>>) }

SegAuths == { AuthMessage(<<117>>, <<112>>), AuthMessage(<<117>>, <<113>>) }

SegRequests ==
  { Request(1, 1, <<10, 0, 0, 1>>), Request(1, 3, Domain(1)),
    Request(2, 1, <<10, 0, 0, 1>>) }

SegPayload == <<1>>

\* the messages a client of forward f sends, in order
ClientPlans(f) ==
  IF RequireAuth(f)
  THEN { <<g, a, r, SegPayload>> : g \in SegGreetings, a \in SegAuths, r \in SegRequests }
  ELSE { <<g, r, SegPayload>> : g \in SegGreetings, r \in SegRequests }

\* the byte stream of a sequence of messages
RECURSIVE Flatten(_)
Flatten(msgs) ==
  IF msgs = <<>> THEN <<>> ELSE Head(msgs) \o Flatten(Tail(msgs))

\* the client writes the next n bytes of its stream: a part of a message, a
\* whole message, or a message and what follows it
ClientSegment(k) ==
  LET c == conns[k]
  IN /\ c.st \in {"accepted", "auth", "request", "dial", "relay"}
     /\ \E n \in 1..Len(c.todo) :
          conns' = [conns EXCEPT ![k].in = @ \o SubSeq(c.todo, 1, n),
                                 ![k].todo = SubSeq(c.todo, n + 1, Len(c.todo))]
     /\ UNCHANGED others

SegInit ==
  /\ instanceCounter = 0
  /\ instances = {}
  /\ cfg = [i \in InstanceIds |-> IF i = 1 THEN "proxy.ini" ELSE "none"]
  /\ running = [i \in InstanceIds |-> FALSE]
  /\ cancelled = [i \in InstanceIds |-> FALSE]
  /\ connections = [i \in InstanceIds |->
                      [s \in ServerNames |-> IF i = 1 /\ s = "s1" THEN 1 ELSE 0]]
  /\ session = [x \in SessionIds |->
                  IF x = 1 THEN [st |-> "open", srv |-> "s1", inst |-> 1, mon |-> "run"]
                  ELSE NoSession]
  /\ pc = [g \in Sups |->
             IF Fwd(g) \in forwardConfigs("proxy.ini") /\ Gen(g) = 1
             THEN "accept" ELSE "none"]
  /\ held = [g \in Sups |->
               IF Fwd(g) \in forwardConfigs("proxy.ini") /\ Gen(g) = 1
               THEN 1 ELSE 0]
  /\ \E f \in {h \in forwardConfigs("proxy.ini") :
                  ForwardConfig[h].Direction \in SocksKinds} :
       \E plan \in ClientPlans(f) :
         conns = [k \in ConnIds |->
                    IF k = 1
                    THEN [NoConn EXCEPT !.st = "accepted", !.f = f, !.sess = 1]
                         @@ [plan |-> plan, todo |-> Flatten(plan)]
                    ELSE NoConn @@ [plan |-> <<>>, todo |-> <<>>]]
  /\ api = Idle
  /\ ret = 0
  /\ returned = {}
  /\ faults = 0
  /\ NoManager

SegNext ==
  \E k \in ConnIds :
    \/ ClientSegment(k)
    \/ socks5Greeting(k)
    \/ socks5Auth(k)
    \/ socks5Request(k)
    \/ \E ok \in BOOLEAN : socks5Dial(k, ok)
    \/ copyUp(k)

SegSpec == SegInit /\ [][SegNext]_vars

\* the replies of the negotiation when every Read returns one message of
\* the plan: the method selection and the authentication status
PlanReplies(f, plan) ==
  LET sel == methodSelection(f, plan[1])
  IN IF sel = <<5, 2>> THEN sel \o handleUsernamePasswordAuth(f, plan[2]) ELSE sel

\* the targets dialed when every Read returns one message of the plan
PlanDials(f, plan) ==
  LET sel == methodSelection(f, plan[1])
      passed == \/ sel = <<5, 0>>
                \/ sel = <<5, 2>> /\ handleUsernamePasswordAuth(f, plan[2]) = <<1, 0>>
      target == parseRequest(plan[Len(plan) - 1])
  IN IF passed /\ target # <<>> THEN <<target>> ELSE <<>>

\* nothing more happens on the connection before the dial or the end of the
\* relay: it is closed, or the client has sent its whole stream and the
\* server has read all of it
Settled(c) ==
  \/ c.st = "closed"
  \/ c.st # "dial" /\ c.todo = <<>> /\ c.in = <<>>

\* C40: however the client's byte stream is split into segments, the replies
\* written, the target dialed and the payload relayed are those of the same
\* stream delivered one message per Read
C40_SegmentationIrrelevant ==
  \A k \in ConnIds :
    LET c == conns[k]
        replies == PlanReplies(c.f, c.plan)
    IN (c.st # "free" /\ Settled(c))
       => /\ c.dials = PlanDials(c.f, c.plan)
          /\ Len(c.out) = Len(replies) + 10 * Len(c.dials)
          /\ SubSeq(c.out, 1, Len(replies)) = replies
          /\ c.st = "relay" => c.up = c.plan[Len(c.plan)]
====
